---- MODULE Spec2Model ----
(***************************************************************************)
(* A model of zap-cli (zap_cli/cli.py): the session store on disk, the    *)
(* per-directory project context file zap.json, the name derivation, the  *)
(* per-secret decryption and the commands list, use, run, stop, clear and *)
(* status.                                                                 *)
(*                                                                         *)
(* Python strings are sequences of characters.  A character is a          *)
(* one-character TLA+ string; the two non-ASCII letters of the model are   *)
(* written by their code points, "U+00E9" (e acute) and "U+00C9" (E       *)
(* acute).  An optional argument is [some |-> FALSE] (None) or            *)
(* [some |-> TRUE, val |-> v].                                             *)
(***************************************************************************)
EXTENDS Integers, Sequences, FiniteSets, TLC

VARIABLES
    sessions,   \* the sessions directory: file stem -> file content or Absent
    zap,        \* zap.json of each working directory: content or Absent
    last,       \* the last command: name, cwd, argument, message, exit status
    shown,      \* the rows the last command printed
    child,      \* the child process run spawned: spawned, env, returncode
    failures,   \* the secrets run reported as failed to decrypt, in order
    dName,      \* name derivation alone: the secret name
    dPrefix,    \* name derivation alone: the optional prefix
    dOut        \* name derivation alone: the result, once computed

vars == <<sessions, zap, last, shown, child, failures, dName, dPrefix, dOut>>

fsVars == <<sessions, zap>>
cmdVars == <<last, shown, child, failures>>
deriveVars == <<dName, dPrefix, dOut>>

None == [some |-> FALSE]
Some(v) == [some |-> TRUE, val |-> v]

(***************************************************************************)
(* Characters                                                              *)
(***************************************************************************)
LowerLetters ==
    <<"a","b","c","d","e","f","g","h","i","j","k","l","m",
      "n","o","p","q","r","s","t","u","v","w","x","y","z">>
UpperLetters ==
    <<"A","B","C","D","E","F","G","H","I","J","K","L","M",
      "N","O","P","Q","R","S","T","U","V","W","X","Y","Z">>
DigitChars == <<"0","1","2","3","4","5","6","7","8","9">>

Range(s) == {s[i] : i \in 1..Len(s)}
IndexOf(s, c) == CHOOSE i \in 1..Len(s) : s[i] = c

AsciiLower == Range(LowerLetters)
AsciiUpper == Range(UpperLetters)
AsciiDigit == Range(DigitChars)
AsciiAlnum == AsciiLower \cup AsciiUpper \cup AsciiDigit
\* letters outside ASCII: e acute and its capital
UnicodeLetters == {"U+00E9", "U+00C9"}

\* str.upper(), one character at a time
UpperOfLower == [c \in AsciiLower |-> UpperLetters[IndexOf(LowerLetters, c)]]
upper(c) ==
    IF c \in AsciiLower THEN UpperOfLower[c]
    ELSE IF c = "U+00E9" THEN "U+00C9"
    ELSE c

\* str.isalnum() of one character: true of every Unicode letter and digit
isalnum(c) == c \in AsciiAlnum \cup UnicodeLetters

\* code-point order of the characters the model uses
CodePoints ==
    <<" ", "!", "-">> \o DigitChars \o UpperLetters \o <<"_">> \o LowerLetters
      \o <<"U+00C9", "U+00E9">>
CodePointRank == [c \in Range(CodePoints) |-> IndexOf(CodePoints, c)]
ord(c) == CodePointRank[c]

(***************************************************************************)
(* secret_name_to_env_var                                                  *)
(***************************************************************************)
str_upper(s) == [i \in 1..Len(s) |-> upper(s[i])]

\* "".join(c if c.isalnum() else "_" for c in s.upper())
clean(s) ==
    LET u == str_upper(s)
    IN  [i \in 1..Len(u) |-> IF isalnum(u[i]) THEN u[i] ELSE "_"]

RECURSIVE splitFrom(_, _, _, _, _)
splitFrom(s, sep, i, cur, acc) ==
    IF i > Len(s) THEN Append(acc, cur)
    ELSE IF s[i] = sep THEN splitFrom(s, sep, i + 1, <<>>, Append(acc, cur))
    ELSE splitFrom(s, sep, i + 1, Append(cur, s[i]), acc)

\* s.split(sep): the tokens between separators, empty ones included
split(s, sep) == splitFrom(s, sep, 1, <<>>, <<>>)

\* filter(None, tokens)
filterNonEmpty(tokens) == SelectSeq(tokens, LAMBDA t : Len(t) > 0)

RECURSIVE join(_, _)
join(sep, tokens) ==
    IF Len(tokens) = 0 THEN <<>>
    ELSE IF Len(tokens) = 1 THEN tokens[1]
    ELSE tokens[1] \o <<sep>> \o join(sep, Tail(tokens))

\* if prefix: -- None and "" are both false
truthy(opt) == opt.some /\ Len(opt.val) > 0

secret_name_to_env_var(secret_name, prefix) ==
    LET clean_name == join("_", filterNonEmpty(split(clean(secret_name), "_")))
    IN  IF truthy(prefix)
        THEN clean(prefix.val) \o <<"_">> \o clean_name
        ELSE clean_name

(***************************************************************************)
(* Name derivation alone: the inputs are drawn by the initial state.       *)
(***************************************************************************)
MaxNameLen == 3
MaxPrefixLen == 2

NameChars == {"a", "B", "7", "_", "-", "U+00E9"}
PrefixChars == {"p", "-"}

StringsOver(chars, n) == UNION {[1..k -> chars] : k \in 0..n}

DbPassword == <<"d","b"," ","p","a","s","s","w","o","r","d">>
ApiKey == <<"a","p","i","-","-","k","e","y","!","!">>
DB_PASSWORD == <<"D","B","_","P","A","S","S","W","O","R","D">>
API_KEY == <<"A","P","I","_","K","E","Y">>
App == <<"a","p","p">>
APP_DB_PASSWORD == <<"A","P","P","_">> \o DB_PASSWORD

DeriveNames == StringsOver(NameChars, MaxNameLen) \cup {DbPassword, ApiKey, DB_PASSWORD}
DerivePrefixes ==
    {None} \cup {Some(p) : p \in StringsOver(PrefixChars, MaxPrefixLen) \cup {App}}

NotDerived == [done |-> FALSE]

(***************************************************************************)
(* Outcomes of a call: a value, or the exception it raises.                *)
(***************************************************************************)
Ok(v) == [exc |-> "none", val |-> v]
Raise(e) == [exc |-> e]

(***************************************************************************)
(* bytes.fromhex                                                           *)
(***************************************************************************)
HexDigits == Range(DigitChars) \cup {"a","b","c","d","e","f","A","B","C","D","E","F"}

\* the value of each hex digit
HexValue ==
    [c \in HexDigits |->
        IF c \in AsciiDigit THEN IndexOf(DigitChars, c) - 1
        ELSE IF c \in AsciiLower THEN 9 + IndexOf(LowerLetters, c)
        ELSE 9 + IndexOf(UpperLetters, c)]
hexval(c) == HexValue[c]

\* bytes.fromhex(s): ValueError unless s is an even number of hex digits
fromhex(s) ==
    IF Len(s) % 2 = 0 /\ \A i \in 1..Len(s) : s[i] \in HexDigits
    THEN Ok([i \in 1..(Len(s) \div 2) |-> 16 * hexval(s[2 * i - 1]) + hexval(s[2 * i])])
    ELSE Raise("ValueError")

(***************************************************************************)
(* Files and JSON.  A file is Absent, unreadable, not JSON, or JSON text;  *)
(* a JSON value is an object (a function of its keys) or something else.   *)
(***************************************************************************)
Absent == [kind |-> "absent"]
Unreadable == [kind |-> "unreadable"]
InvalidJson == [kind |-> "invalid_json"]
JsonFile(data) == [kind |-> "json", data |-> data]

JObject(obj) == [type |-> "object", obj |-> obj]
JList == [type |-> "list"]

exists(file) == file # Absent

\* with open(path, "r") as f: json.load(f)
read_json(file) ==
    IF file.kind = "unreadable" THEN Raise("IOError")
    ELSE IF file.kind = "invalid_json" THEN Raise("JSONDecodeError")
    ELSE Ok(file.data)

\* the exceptions load and list_all catch
Caught == {"JSONDecodeError", "KeyError", "IOError"}

\* data[key]
subscript(data, key) ==
    IF data.type # "object" THEN Raise("TypeError")
    ELSE IF key \notin DOMAIN data.obj THEN Raise("KeyError")
    ELSE Ok(data.obj[key])

(***************************************************************************)
(* SessionFile                                                             *)
(***************************************************************************)
\* SessionFile.__init__: the fields are read in this order and the first
\* failure is the exception raised
SessionFile_init(data) ==
    LET n == subscript(data, "session_name")
        b == subscript(data, "box_name")
        k == subscript(data, "session_key")
        e == subscript(data, "encrypted_secrets")
        c == subscript(data, "created_at")
    IN  IF n.exc # "none" THEN Raise(n.exc)
        ELSE IF b.exc # "none" THEN Raise(b.exc)
        ELSE IF k.exc # "none" THEN Raise(k.exc)
        ELSE IF fromhex(k.val).exc # "none" THEN Raise(fromhex(k.val).exc)
        ELSE IF e.exc # "none" THEN Raise(e.exc)
        ELSE IF c.exc # "none" THEN Raise(c.exc)
        ELSE Ok([session_name |-> n.val, box_name |-> b.val,
                 session_key |-> fromhex(k.val).val,
                 encrypted_secrets |-> e.val, created_at |-> c.val])

\* cls(json.load(f)) inside the with block
parse_session(file) ==
    LET j == read_json(file)
    IN  IF j.exc # "none" THEN j ELSE SessionFile_init(j.val)

\* SessionFile.load: Ok(None), Ok(Some(record)), or the exception that escapes
SessionFile_load(dir, session_name) ==
    IF ~exists(dir[session_name]) THEN Ok(None)
    ELSE LET r == parse_session(dir[session_name])
         IN  IF r.exc = "none" THEN Ok(Some(r.val))
             ELSE IF r.exc \in Caught THEN Ok(None)
             ELSE Raise(r.exc)

\* sorted(..., key=created_at, reverse=True) is stable: x goes after every
\* element whose key is not smaller
RECURSIVE insertDesc(_, _)
insertDesc(sorted, x) ==
    IF Len(sorted) = 0 THEN <<x>>
    ELSE IF Head(sorted).created_at >= x.created_at
         THEN <<Head(sorted)>> \o insertDesc(Tail(sorted), x)
         ELSE <<x>> \o sorted

RECURSIVE sortedDesc(_, _)
sortedDesc(items, acc) ==
    IF Len(items) = 0 THEN acc
    ELSE sortedDesc(Tail(items), insertDesc(acc, Head(items)))

\* the loop of list_all over the files in glob order
RECURSIVE collect(_, _, _)
collect(dir, order, acc) ==
    IF Len(order) = 0 THEN Ok(acc)
    ELSE LET r == parse_session(dir[Head(order)])
         IN  IF r.exc = "none" THEN collect(dir, Tail(order), Append(acc, r.val))
             ELSE IF r.exc \in Caught THEN collect(dir, Tail(order), acc)
             ELSE Raise(r.exc)

\* SessionFile.list_all, the files visited in the order glob yields them
SessionFile_list_all(dir, order) ==
    LET r == collect(dir, order, <<>>)
    IN  IF r.exc # "none" THEN r ELSE Ok(sortedDesc(r.val, <<>>))

\* the orders in which glob("*.json") may yield the files of the directory
Present(dir) == {f \in DOMAIN dir : exists(dir[f])}
GlobOrders(dir) ==
    {o \in [1..Cardinality(Present(dir)) -> Present(dir)] :
        \A i, j \in DOMAIN o : i # j => o[i] # o[j]}

(***************************************************************************)
(* ProjectContext                                                          *)
(***************************************************************************)
\* ProjectContext.__init__: data.get raises AttributeError on a non-object
ProjectContext_init(data) ==
    IF data.type # "object" THEN Raise("AttributeError")
    ELSE IF "current_session" \notin DOMAIN data.obj THEN Raise("KeyError")
    ELSE Ok([app |-> IF "app" \in DOMAIN data.obj THEN data.obj["app"] ELSE "zap",
             current_session |-> data.obj["current_session"],
             available_secrets |->
                 IF "available_secrets" \in DOMAIN data.obj
                 THEN data.obj["available_secrets"] ELSE <<>>])

\* ProjectContext.load
ProjectContext_load(file) ==
    IF ~exists(file) THEN Ok(None)
    ELSE LET j == read_json(file)
             r == IF j.exc # "none" THEN j ELSE ProjectContext_init(j.val)
         IN  IF r.exc = "none" THEN Ok(Some(r.val))
             ELSE IF r.exc \in Caught THEN Ok(None)
             ELSE Raise(r.exc)

\* ProjectContext.save: the file json.dump writes
ProjectContext_save(ctx) ==
    JsonFile(JObject([app |-> ctx.app, current_session |-> ctx.current_session,
                      available_secrets |-> ctx.available_secrets]))

(***************************************************************************)
(* AES-GCM, symbolically: a ciphertext names the key, nonce and plaintext  *)
(* it seals, a tag authenticates one ciphertext under one key and nonce.   *)
(***************************************************************************)
Seal(key, nonce, plain) == [ek |-> key, en |-> nonce, plain |-> plain]
TagOf(key, nonce, cipher) == [tk |-> key, tn |-> nonce, over |-> cipher]

\* AESGCM(key): the key must be 128, 192 or 256 bits
AESGCM(key) == IF Len(key) \in {16, 24, 32} THEN Ok(key) ELSE Raise("ValueError")

\* aesgcm.decrypt(nonce, cipher + tag, None)
aesgcm_decrypt(key, nonce, cipher, tag) ==
    IF tag = TagOf(key, nonce, cipher) /\ cipher.ek = key /\ cipher.en = nonce
    THEN Ok(cipher.plain)
    ELSE Raise("InvalidTag")

\* decrypted.decode("utf-8")
decode_utf8(bytes) ==
    IF bytes.utf8 THEN Ok(bytes.text) ELSE Raise("UnicodeDecodeError")

\* bytes.fromhex of a payload, then json.loads of the bytes
payload_loads(payload) ==
    IF ~payload.hex THEN Raise("ValueError")
    ELSE IF payload.text.kind = "invalid_json" THEN Raise("JSONDecodeError")
    ELSE Ok(payload.text.data)

\* decrypt_secret: the stages in the order of the code
decrypt_secret(hex_encrypted_data, session_key) ==
    LET d == payload_loads(hex_encrypted_data)
    IN  IF d.exc # "none" THEN d
        ELSE
        LET cipher == subscript(d.val, "cipher")
            nonce == subscript(d.val, "nonce")
            tag == subscript(d.val, "tag")
        IN  IF cipher.exc # "none" THEN cipher
            ELSE IF nonce.exc # "none" THEN nonce
            ELSE IF tag.exc # "none" THEN tag
            ELSE IF AESGCM(session_key).exc # "none" THEN AESGCM(session_key)
            ELSE LET p == aesgcm_decrypt(session_key, nonce.val, cipher.val, tag.val)
                 IN  IF p.exc # "none" THEN p ELSE decode_utf8(p.val)

(***************************************************************************)
(* The environment: a function from variable names to values.              *)
(***************************************************************************)
\* setdefault instead of assignment: an existing variable is kept
env_setdefault(env, name, value) ==
    [n \in DOMAIN env \cup {name} |-> IF n \in DOMAIN env THEN env[n] ELSE value]

\* env[env_var_name] = decrypted_value
env_set(env, name, value) ==
    [n \in DOMAIN env \cup {name} |-> IF n = name THEN value ELSE env[n]]

\* the loop of run over encrypted_secrets.items(), from entry i on; every
\* exception of the body is caught and reported
RECURSIVE inject(_, _, _, _, _, _)
inject(entries, i, session_key, prefix, env, failed) ==
    IF i > Len(entries) THEN [env |-> env, failed |-> failed]
    ELSE LET d == decrypt_secret(entries[i].payload, session_key)
         IN  IF d.exc = "none"
             THEN inject(entries, i + 1, session_key, prefix,
                         env_set(env, secret_name_to_env_var(entries[i].name, prefix), d.val),
                         failed)
             ELSE inject(entries, i + 1, session_key, prefix, env,
                         Append(failed, entries[i].name))

\* the loop with the try around the whole loop instead of around its body:
\* the first failure is reported and ends the loop
RECURSIVE inject_abort(_, _, _, _, _, _)
inject_abort(entries, i, session_key, prefix, env, failed) ==
    IF i > Len(entries) THEN [env |-> env, failed |-> failed]
    ELSE LET d == decrypt_secret(entries[i].payload, session_key)
         IN  IF d.exc = "none"
             THEN inject_abort(entries, i + 1, session_key, prefix,
                         env_set(env, secret_name_to_env_var(entries[i].name, prefix), d.val),
                         failed)
             ELSE [env |-> env, failed |-> Append(failed, entries[i].name)]

materialize_abort(session_file, prefix, environ) ==
    inject_abort(session_file.encrypted_secrets, 1, session_file.session_key, prefix,
                 environ, <<>>)

\* env = os.environ.copy(), then the loop
materialize(session_file, prefix, environ) ==
    inject(session_file.encrypted_secrets, 1, session_file.session_key, prefix, environ, <<>>)

(***************************************************************************)
(* sorted() of a list of strings (available_secrets.sort())                *)
(***************************************************************************)
RECURSIVE strLess(_, _)
strLess(a, b) ==
    IF Len(b) = 0 THEN FALSE
    ELSE IF Len(a) = 0 THEN TRUE
    ELSE IF ord(Head(a)) # ord(Head(b)) THEN ord(Head(a)) < ord(Head(b))
    ELSE strLess(Tail(a), Tail(b))

RECURSIVE insertAsc(_, _)
insertAsc(sorted, x) ==
    IF Len(sorted) = 0 THEN <<x>>
    ELSE IF strLess(x, Head(sorted)) THEN <<x>> \o sorted
    ELSE <<Head(sorted)>> \o insertAsc(Tail(sorted), x)

RECURSIVE sortStrings(_, _)
sortStrings(items, acc) ==
    IF Len(items) = 0 THEN acc
    ELSE sortStrings(Tail(items), insertAsc(acc, Head(items)))

(***************************************************************************)
(* What the desktop application leaves on disk: session files, well        *)
(* formed or not.                                                          *)
(***************************************************************************)
Stems == {"a", "b"}
Dirs == {"d1", "d2"}

KeyHex(c) == [i \in 1..32 |-> IF i = 32 THEN c ELSE "0"]
KeyAHex == KeyHex("a")
KeyBHex == KeyHex("b")
ShortKeyHex == <<"0", "a">>
NotHex == <<"z", "z">>
KeyA == fromhex(KeyAHex).val
KeyB == fromhex(KeyBHex).val

Text(t) == [utf8 |-> TRUE, text |-> t]
NotUtf8 == [utf8 |-> FALSE]

\* the payload the desktop application writes for one secret
Bundle(cipher, nonce, tag) ==
    [hex |-> TRUE,
     text |-> JsonFile(JObject([cipher |-> cipher, nonce |-> nonce, tag |-> tag]))]
encrypt(plain, key, nonce) ==
    Bundle(Seal(key, nonce, plain), nonce, TagOf(key, nonce, Seal(key, nonce, plain)))

PayloadKinds == {"ok", "tampered", "badhex"}

\* a payload of each kind for the value v, sealed for a session whose key is KeyA
Payload(kind, v) ==
    CASE kind = "ok" -> encrypt(Text(v), KeyA, "n1")
      [] kind = "tampered" ->
            Bundle(Seal(KeyA, "n1", Text("flipped")), "n1",
                   TagOf(KeyA, "n1", Seal(KeyA, "n1", Text(v))))
      [] kind = "badhex" -> [hex |-> FALSE]
      [] kind = "wrongkey" -> encrypt(Text(v), KeyB, "n1")
      [] kind = "notjson" -> [hex |-> TRUE, text |-> InvalidJson]
      [] kind = "notag" ->
            [hex |-> TRUE,
             text |-> JsonFile(JObject([cipher |-> Seal(KeyA, "n1", Text(v)),
                                        nonce |-> "n1"]))]
      [] kind = "notutf8" -> encrypt(NotUtf8, KeyA, "n1")

PathName == <<"p","a","t","h">>
PATH == <<"P","A","T","H">>
HOME == <<"H","O","M","E">>

\* the secret of each name
ValueOf(name) ==
    CASE name = DbPassword -> "s1"
      [] name = DB_PASSWORD -> "s2"
      [] name = ApiKey -> "s3"
      [] name = PathName -> "s4"

Entry(name, kind) == [name |-> name, payload |-> Payload(kind, ValueOf(name))]

\* os.environ of the process
OsEnviron ==
    [n \in {PATH, HOME, DB_PASSWORD} |->
        IF n = PATH THEN "/usr/bin" ELSE IF n = HOME THEN "/root" ELSE "inherited"]

SessionData(name, key_hex, entries, created_at) ==
    [session_name |-> name, box_name |-> "box", session_key |-> key_hex,
     encrypted_secrets |-> entries, created_at |-> created_at]

\* the well-formed files the directory of the command model may hold: one
\* session per stem, created at time 1 or, for "b", at time 1 or 2
GoodEntries == <<Entry(DbPassword, "ok"), Entry(ApiKey, "tampered")>>
GoodFile(stem, created_at) ==
    JsonFile(JObject(SessionData(stem, KeyAHex, GoodEntries, created_at)))
GoodFiles(stem) ==
    IF stem = "a" THEN {GoodFile(stem, 1)} ELSE {GoodFile(stem, 1), GoodFile(stem, 2)}

\* the malformed ones: unreadable, not JSON, JSON that is no object, an object
\* with no created_at, a session_key that is not hex
MissingField(stem) ==
    JsonFile(JObject([session_name |-> stem, box_name |-> "box", session_key |-> KeyAHex,
                      encrypted_secrets |-> <<>>]))
BadKey(stem) == JsonFile(JObject(SessionData(stem, NotHex, <<>>, 1)))

BadFiles(stem) ==
    IF stem = "a" THEN {InvalidJson, JsonFile(JList), BadKey(stem)}
    ELSE {Unreadable, MissingField(stem)}

FileContents(stem) == GoodFiles(stem) \cup BadFiles(stem)

(***************************************************************************)
(* Session files for the model of run alone: every order, and every mix of *)
(* good and corrupt payloads, of up to MaxSecrets secrets.                 *)
(***************************************************************************)
MaxSecrets == 3

SecretNames == {DbPassword, DB_PASSWORD, ApiKey, PathName}

EntryLists ==
    UNION { { [i \in 1..k |-> Entry(ns[i], ks[i])] :
                ns \in {f \in [1..k -> SecretNames] : \A i, j \in 1..k : i # j => f[i] # f[j]},
                ks \in [1..k -> PayloadKinds] } : k \in 0..MaxSecrets }

OtherEntryLists ==
    { <<Entry(DbPassword, "notjson"), Entry(ApiKey, "ok"), Entry(PathName, "notag")>>,
      <<Entry(ApiKey, "notutf8"), Entry(DB_PASSWORD, "wrongkey"), Entry(DbPassword, "ok")>> }

RunFiles ==
    { JsonFile(JObject(SessionData("a", KeyAHex, es, 1))) : es \in EntryLists \cup OtherEntryLists }
    \cup { JsonFile(JObject(SessionData("a", ShortKeyHex, es, 1))) : es \in OtherEntryLists }

(***************************************************************************)
(* The commands.  Each leaves in last what it printed (msg), its exit      *)
(* status and the exception that escaped it, if any: an uncaught exception *)
(* ends the process with a traceback and status 1.                         *)
(***************************************************************************)
NoChild == [spawned |-> FALSE]
ChildCodes == {0, 3}
\* what subprocess.run meets: the command runs and returns a code, or the
\* executable is not found
SpawnOutcomes == {Ok(rc) : rc \in ChildCodes} \cup {Raise("FileNotFoundError")}

Returned(cmd, cwd, arg, msg, status) ==
    [cmd |-> cmd, cwd |-> cwd, arg |-> arg, msg |-> msg, exit |-> status, raised |-> "none"]
Crashed(cmd, cwd, arg, exc) ==
    [cmd |-> cmd, cwd |-> cwd, arg |-> arg, msg |-> "traceback", exit |-> 1, raised |-> exc]

\* start: launches the desktop application; a failure to launch is reported
\* and the command still returns
start(cwd, launched) ==
    /\ last' = Returned("start", cwd, None, IF launched THEN "launched" ELSE "launch_failed", 0)
    /\ shown' = <<>>
    /\ child' = NoChild
    /\ failures' = <<>>
    /\ UNCHANGED <<fsVars, deriveVars>>

\* the desktop application writes, or damages, a session file
DesktopWrite(stem, content) ==
    /\ sessions' = [sessions EXCEPT ![stem] = content]
    /\ UNCHANGED <<zap, cmdVars, deriveVars>>

\* the rows of "list <name>": secret name -> derived name
SecretRows(entries) ==
    [i \in 1..Len(entries) |->
        <<entries[i].name, secret_name_to_env_var(entries[i].name, None)>>]

\* the rows of the table of "list"
SessionRows(found, current_session) ==
    [i \in 1..Len(found) |->
        [session |-> found[i].session_name,
         secrets |-> Len(found[i].encrypted_secrets),
         box |-> found[i].box_name,
         current |-> Some(found[i].session_name) = current_session]]

\* list <session_name>
list_one(cwd, session_name) ==
    LET session == SessionFile_load(sessions, session_name)
        arg == Some(session_name)
    IN  /\ IF session.exc # "none"
           THEN last' = Crashed("list", cwd, arg, session.exc) /\ shown' = <<>>
           ELSE IF ~session.val.some
           THEN last' = Returned("list", cwd, arg, "session_not_found", 0) /\ shown' = <<>>
           ELSE IF Len(session.val.val.encrypted_secrets) = 0
           THEN last' = Returned("list", cwd, arg, "no_secrets", 0) /\ shown' = <<>>
           ELSE /\ last' = Returned("list", cwd, arg, "secrets", 0)
                /\ shown' = SecretRows(session.val.val.encrypted_secrets)
        /\ child' = NoChild
        /\ failures' = <<>>
        /\ UNCHANGED <<fsVars, deriveVars>>

\* list, with no argument
list_sessions(cwd, order) ==
    LET found == SessionFile_list_all(sessions, order)
        context == ProjectContext_load(zap[cwd])
    IN  /\ IF found.exc # "none"
           THEN last' = Crashed("list", cwd, None, found.exc) /\ shown' = <<>>
           ELSE IF Len(found.val) = 0
           THEN last' = Returned("list", cwd, None, "no_sessions", 0) /\ shown' = <<>>
           ELSE IF context.exc # "none"
           THEN last' = Crashed("list", cwd, None, context.exc) /\ shown' = <<>>
           ELSE /\ last' = Returned("list", cwd, None, "sessions", 0)
                /\ shown' = SessionRows(found.val,
                                IF context.val.some
                                THEN Some(context.val.val.current_session) ELSE None)
        /\ child' = NoChild
        /\ failures' = <<>>
        /\ UNCHANGED <<fsVars, deriveVars>>

\* use <session_name>
use(cwd, session_name) ==
    LET session == SessionFile_load(sessions, session_name)
        arg == Some(session_name)
    IN  /\ IF session.exc # "none"
           THEN last' = Crashed("use", cwd, arg, session.exc) /\ UNCHANGED zap
           ELSE IF ~session.val.some
           THEN last' = Returned("use", cwd, arg, "session_not_found", 1) /\ UNCHANGED zap
           ELSE LET entries == session.val.val.encrypted_secrets
                    available_secrets ==
                        sortStrings([i \in 1..Len(entries) |->
                                        secret_name_to_env_var(entries[i].name, None)], <<>>)
                    context == [app |-> "zap", current_session |-> session_name,
                                available_secrets |-> available_secrets]
                IN  /\ zap' = [zap EXCEPT ![cwd] = ProjectContext_save(context)]
                    /\ last' = Returned("use", cwd, arg, "switched", 0)
        /\ shown' = <<>>
        /\ child' = NoChild
        /\ failures' = <<>>
        /\ UNCHANGED <<sessions, deriveVars>>

\* run: the session name resolved from --session or from zap.json
resolve_session(cwd, session) ==
    IF session.some THEN Ok(session)
    ELSE LET context == ProjectContext_load(zap[cwd])
         IN  IF context.exc # "none" THEN context
             ELSE IF ~context.val.some THEN Ok(None)
             ELSE Ok(Some(context.val.val.current_session))

\* the return code dropped: run always ends with status 0 after the child
exit_status_dropped(returncode) == 0

\* sys.exit(result.returncode)
exit_status(returncode) == returncode

\* run [--session s] [--prefix p] -- command
run(cwd, session, prefix, outcome) ==
    LET session_name == resolve_session(cwd, session)
        session_file == SessionFile_load(sessions, session_name.val.val)
        m == materialize(session_file.val.val, prefix, OsEnviron)
        arg == [session |-> session, prefix |-> prefix]
    IN  /\ IF session_name.exc # "none"
           THEN /\ last' = Crashed("run", cwd, arg, session_name.exc)
                /\ child' = NoChild
                /\ failures' = <<>>
           ELSE IF ~session_name.val.some
           THEN /\ last' = Returned("run", cwd, arg, "no_current_session", 1)
                /\ child' = NoChild
                /\ failures' = <<>>
           ELSE IF session_file.exc # "none"
           THEN /\ last' = Crashed("run", cwd, arg, session_file.exc)
                /\ child' = NoChild
                /\ failures' = <<>>
           ELSE IF ~session_file.val.some
           THEN /\ last' = Returned("run", cwd, arg, "session_not_found", 1)
                /\ child' = NoChild
                /\ failures' = <<>>
           ELSE IF outcome.exc # "none"
           THEN /\ last' = Crashed("run", cwd, arg, outcome.exc)
                /\ child' = NoChild
                /\ failures' = m.failed
           ELSE /\ last' = Returned("run", cwd, arg, "executed", exit_status(outcome.val))
                /\ child' = [spawned |-> TRUE, env |-> m.env, returncode |-> outcome.val]
                /\ failures' = m.failed
        /\ shown' = <<>>
        /\ UNCHANGED <<fsVars, deriveVars>>

\* the comparison made against the app tag instead of the session name
is_current_app(context, session_name) ==
    context.some /\ context.val.app = session_name

\* context and context.current_session == session_name
is_current(context, session_name) ==
    context.some /\ context.val.current_session = session_name

\* stop <session_name>
stop(cwd, session_name) ==
    LET arg == Some(session_name)
        context == ProjectContext_load(zap[cwd])
    IN  /\ IF exists(sessions[session_name])
           THEN /\ sessions' = [sessions EXCEPT ![session_name] = Absent]
                /\ IF context.exc # "none"
                   THEN last' = Crashed("stop", cwd, arg, context.exc) /\ UNCHANGED zap
                   ELSE IF is_current(context.val, session_name)
                   THEN /\ zap' = [zap EXCEPT ![cwd] = Absent]
                        /\ last' = Returned("stop", cwd, arg, "stopped_and_cleared", 0)
                   ELSE /\ last' = Returned("stop", cwd, arg, "stopped", 0)
                        /\ UNCHANGED zap
           ELSE /\ last' = Returned("stop", cwd, arg, "session_not_found", 0)
                /\ UNCHANGED <<sessions, zap>>
        /\ shown' = <<>>
        /\ child' = NoChild
        /\ failures' = <<>>
        /\ UNCHANGED deriveVars

\* clear, with the user's answer to the confirmation
clear(cwd, confirmed, order) ==
    LET found == SessionFile_list_all(sessions, order)
    IN  /\ IF found.exc # "none"
           THEN last' = Crashed("clear", cwd, None, found.exc) /\ UNCHANGED <<sessions, zap>>
           ELSE IF Len(found.val) = 0
           THEN /\ last' = Returned("clear", cwd, None, "no_sessions", 0)
                /\ UNCHANGED <<sessions, zap>>
           ELSE IF ~confirmed
           THEN /\ last' = Returned("clear", cwd, None, "cancelled", 0)
                /\ UNCHANGED <<sessions, zap>>
           ELSE /\ sessions' = [f \in DOMAIN sessions |-> Absent]
                /\ zap' = [zap EXCEPT ![cwd] = Absent]
                /\ last' = Returned("clear", cwd, None, "cleared", 0)
        /\ shown' = <<>>
        /\ child' = NoChild
        /\ failures' = <<>>
        /\ UNCHANGED deriveVars

\* status
status(cwd) ==
    LET context == ProjectContext_load(zap[cwd])
        session == SessionFile_load(sessions, context.val.val.current_session)
    IN  /\ IF context.exc # "none"
           THEN last' = Crashed("status", cwd, None, context.exc) /\ shown' = <<>>
           ELSE IF ~context.val.some
           THEN last' = Returned("status", cwd, None, "no_current_session", 0) /\ shown' = <<>>
           ELSE IF session.exc # "none"
           THEN last' = Crashed("status", cwd, None, session.exc) /\ shown' = <<>>
           ELSE IF ~session.val.some
           THEN /\ last' = Returned("status", cwd, None, "current_session_not_found", 0)
                /\ shown' = <<>>
           ELSE /\ last' = Returned("status", cwd, None, "status", 0)
                /\ shown' = context.val.val.available_secrets
        /\ child' = NoChild
        /\ failures' = <<>>
        /\ UNCHANGED <<fsVars, deriveVars>>

(***************************************************************************)
(* Name derivation alone                                                   *)
(***************************************************************************)
derive ==
    /\ ~dOut.done
    /\ dOut' = [done |-> TRUE, val |-> secret_name_to_env_var(dName, dPrefix)]
    /\ UNCHANGED <<dName, dPrefix, fsVars, cmdVars>>

(***************************************************************************)
(* The specifications                                                      *)
(***************************************************************************)
NoCommand == Returned("none", "d1", None, "none", 0)

InitCommands ==
    /\ last = NoCommand
    /\ shown = <<>>
    /\ child = NoChild
    /\ failures = <<>>

InitDerive ==
    /\ dName = <<>>
    /\ dPrefix = None
    /\ dOut = NotDerived

\* the commands over a sessions directory the desktop application fills
Init ==
    /\ sessions = [f \in Stems |-> Absent]
    /\ zap = [d \in Dirs |-> Absent]
    /\ InitCommands
    /\ InitDerive

Next ==
    \/ \E f \in Stems : \E c \in FileContents(f) : DesktopWrite(f, c)
    \/ \E d \in Dirs, launched \in BOOLEAN : start(d, launched)
    \/ \E d \in Dirs, f \in Stems : list_one(d, f)
    \/ \E d \in Dirs : \E o \in GlobOrders(sessions) : list_sessions(d, o)
    \/ \E d \in Dirs, f \in Stems : use(d, f)
    \/ \E d \in Dirs, s \in {None, Some("a")}, o \in SpawnOutcomes : run(d, s, None, o)
    \/ \E d \in Dirs, f \in Stems : stop(d, f)
    \/ \E d \in Dirs, c \in BOOLEAN : \E o \in GlobOrders(sessions) : clear(d, c, o)
    \/ \E d \in Dirs : status(d)

Spec == Init /\ [][Next]_vars

\* run alone, over every session file of RunFiles
RunPrefixes == {None, Some(App), Some(<<"-">>), Some(<<>>)}

InitRun ==
    /\ sessions \in {[f \in Stems |-> IF f = "a" THEN c ELSE Absent] : c \in RunFiles}
    /\ zap = [d \in Dirs |-> Absent]
    /\ InitCommands
    /\ InitDerive

NextRun ==
    \E p \in RunPrefixes, o \in {Ok(0), Raise("FileNotFoundError")} :
        run("d1", Some("a"), p, o)

SpecRun == InitRun /\ [][NextRun]_vars

\* name derivation alone, over every name and prefix of the bounds
InitDerivation ==
    /\ sessions = [f \in Stems |-> Absent]
    /\ zap = [d \in Dirs |-> Absent]
    /\ InitCommands
    /\ dName \in DeriveNames
    /\ dPrefix \in DerivePrefixes
    /\ dOut = NotDerived

NextDerivation == derive

SpecDerive == InitDerivation /\ [][NextDerivation]_vars

(***************************************************************************)
(* Properties                                                              *)
(***************************************************************************)
\* a session file as the data contract describes it: a JSON object with the
\* five fields, its session_key an even number of hex digits
SessionFields == {"session_name", "box_name", "session_key", "encrypted_secrets", "created_at"}
WellFormed(file) ==
    /\ file.kind = "json"
    /\ file.data.type = "object"
    /\ SessionFields \subseteq DOMAIN file.data.obj
    /\ Len(file.data.obj.session_key) % 2 = 0
    /\ \A i \in 1..Len(file.data.obj.session_key) : file.data.obj.session_key[i] \in HexDigits

\* zap.json of directory d names session n as current_session
ZapNames(d, n) ==
    /\ zap[d].kind = "json"
    /\ zap[d].data.type = "object"
    /\ "current_session" \in DOMAIN zap[d].data.obj
    /\ zap[d].data.obj.current_session = n

HasContext(d) == \E n \in Stems : ZapNames(d, n)

\* C1, as stated: whenever stop(name) is invoked while zap.json of the working
\* directory names name as current_session, zap.json does not exist afterwards.
C1_StopAlwaysClearsPointer ==
    [][\A d \in Dirs, n \in Stems :
          (stop(d, n) /\ ZapNames(d, n)) => zap'[d] = Absent]_vars

\* C1, amended: whenever stop(name) is invoked while zap.json of the working
\* directory names name as current_session and the session file of name exists,
\* afterwards neither the session file nor zap.json exists.
C1_StopOfExistingClearsPointer ==
    [][\A d \in Dirs, n \in Stems :
          (stop(d, n) /\ ZapNames(d, n) /\ exists(sessions[n]))
              => (zap'[d] = Absent /\ sessions'[n] = Absent)]_vars

\* a stop that deleted the session the working directory pointed to
C1_Witness ==
    /\ last.cmd = "stop"
    /\ last.msg = "stopped_and_cleared"
    /\ zap[last.cwd] = Absent
    /\ sessions[last.arg.val] = Absent

\* the session run loaded in the model of run alone, and what its entries do
RunEntries == sessions["a"].data.obj.encrypted_secrets
RunKey == fromhex(sessions["a"].data.obj.session_key).val
Decrypts(i) == decrypt_secret(RunEntries[i].payload, RunKey).exc = "none"
Plaintext(i) == decrypt_secret(RunEntries[i].payload, RunKey).val
DerivedName(i) == secret_name_to_env_var(RunEntries[i].name, last.arg.prefix)
DecryptingEntries == {i \in 1..Len(RunEntries) : Decrypts(i)}
FailedNames ==
    LET bad == SelectSeq([i \in 1..Len(RunEntries) |-> i], LAMBDA i : ~Decrypts(i))
    IN  [k \in 1..Len(bad) |-> RunEntries[bad[k]].name]

\* C2: run treats each entry of encrypted_secrets independently, in stored
\* order: every entry that decrypts is injected under its derived name, every
\* failing entry is reported exactly once (in order) and adds or changes no
\* variable, and no failure stops the entries after it.
C2_EntriesIndependent ==
    last.cmd = "run" =>
        /\ failures = FailedNames
        /\ child.spawned =>
              /\ \A i \in DecryptingEntries : DerivedName(i) \in DOMAIN child.env
              /\ DOMAIN child.env = DOMAIN OsEnviron \cup {DerivedName(i) : i \in DecryptingEntries}
              /\ \A n \in DOMAIN OsEnviron :
                    n \notin {DerivedName(i) : i \in DecryptingEntries} => child.env[n] = OsEnviron[n]

\* a run of three entries whose first fails and whose later ones are injected
C2_Witness ==
    /\ last.cmd = "run"
    /\ child.spawned
    /\ Len(RunEntries) = 3
    /\ ~Decrypts(1) /\ Decrypts(2) /\ Decrypts(3)
    /\ Len(failures) = 1
    /\ {DerivedName(2), DerivedName(3)} \subseteq DOMAIN child.env
    /\ DerivedName(1) \notin DOMAIN child.env

\* C8: the child's environment is os.environ overlaid with the decrypted
\* entries in stored order: a variable some entry derives has the value of the
\* last such entry that decrypts, every other variable is inherited unchanged.
C8_ChildEnvironmentOverlay ==
    (last.cmd = "run" /\ child.spawned) =>
        /\ DOMAIN OsEnviron \subseteq DOMAIN child.env
        /\ \A n \in DOMAIN child.env :
              LET writers == {i \in DecryptingEntries : DerivedName(i) = n}
              IN  IF writers = {}
                  THEN n \in DOMAIN OsEnviron /\ child.env[n] = OsEnviron[n]
                  ELSE child.env[n] = Plaintext(CHOOSE i \in writers : \A j \in writers : j <= i)

\* two entries that decrypt collide on an inherited variable: the later wins
C8_Witness ==
    /\ last.cmd = "run"
    /\ child.spawned
    /\ \E i, j \in DecryptingEntries :
          /\ i < j
          /\ DerivedName(i) = DerivedName(j)
          /\ Plaintext(i) # Plaintext(j)
          /\ DerivedName(j) \in DOMAIN OsEnviron
          /\ child.env[DerivedName(j)] = Plaintext(j)
          /\ child.env[DerivedName(j)] # OsEnviron[DerivedName(j)]
    /\ child.env[HOME] = OsEnviron[HOME]

\* C3, as stated: listing never fails because of a bad file; it shows exactly
\* the well-formed session files, newest created_at first.
C3_ListNeverFails ==
    [][\A d \in Dirs : \A o \in GlobOrders(sessions) :
          list_sessions(d, o) =>
              /\ last'.raised = "none"
              /\ {shown'[i].session : i \in 1..Len(shown')}
                     = {f \in Stems : WellFormed(sessions[f])}
              /\ Len(shown') = Cardinality({f \in Stems : WellFormed(sessions[f])})
              /\ \A i, j \in 1..Len(shown') :
                    i < j => sessions[shown'[i].session].data.obj.created_at
                                >= sessions[shown'[j].session].data.obj.created_at]_vars

\* C4, as stated: loading a session by name never raises; it finds the session
\* exactly when the file exists and is well formed.
C4_LoadNeverRaises ==
    [][\A d \in Dirs, f \in Stems :
          list_one(d, f) =>
              /\ last'.raised = "none"
              /\ (last'.msg = "session_not_found") <=> ~WellFormed(sessions[f])]_vars

\* C5, as stated: without a prefix the derived name consists of A-Z, 0-9 and
\* underscore only, with no leading, trailing or doubled underscore, and
\* derive("db password") = "DB_PASSWORD", derive("api--key!!") = "API_KEY".
C5_DerivedNameIsAsciiIdentifier ==
    (dOut.done /\ ~dPrefix.some) =>
        /\ \A i \in 1..Len(dOut.val) :
              dOut.val[i] \in AsciiUpper \cup AsciiDigit \cup {"_"}
        /\ Len(dOut.val) > 0 => (dOut.val[1] # "_" /\ dOut.val[Len(dOut.val)] # "_")
        /\ \A i \in 1..(Len(dOut.val) - 1) : ~(dOut.val[i] = "_" /\ dOut.val[i + 1] = "_")
        /\ \A i \in 1..Len(dName) : \A k \in 1..Len(dOut.val) :
              dName[i] \notin AsciiAlnum \cup {"_"} => dOut.val[k] # dName[i]
        /\ dName = DbPassword => dOut.val = DB_PASSWORD
        /\ dName = ApiKey => dOut.val = API_KEY

\* C6, as stated: with a non-empty prefix,
\* derive(name, prefix) = derive(prefix) + "_" + derive(name), and
\* derive("DB_PASSWORD", prefix="app") = "APP_DB_PASSWORD".
C6_PrefixDerivedLikeName ==
    (dOut.done /\ dPrefix.some /\ Len(dPrefix.val) > 0) =>
        /\ dOut.val = secret_name_to_env_var(dPrefix.val, None) \o <<"_">>
                          \o secret_name_to_env_var(dName, None)
        /\ (dName = DB_PASSWORD /\ dPrefix = Some(App)) => dOut.val = APP_DB_PASSWORD

\* C7, as stated: a command that ends in a failure (session not found, no
\* project context) ends with a non-zero exit status.
FailureMessages == {"session_not_found", "no_current_session", "current_session_not_found"}
C7_FailuresExitNonZero ==
    last.msg \in FailureMessages => last.exit # 0

\* C9, as stated: after a clear the user did not cancel, no session file
\* remains and the working directory has no zap.json.
C9_ClearRemovesEverything ==
    [][\A d \in Dirs, c \in BOOLEAN : \A o \in GlobOrders(sessions) :
          (clear(d, c, o) /\ last'.msg # "cancelled") =>
              /\ \A f \in Stems : sessions'[f] = Absent
              /\ zap'[d] = Absent]_vars

\* C10: a run that finds no project context (and has no --session), or whose
\* session cannot be loaded, ends with status 1 and spawns no child; a child is
\* spawned only when the session was loaded, and then run ends with the
\* child's return code.  (A step that sets last to a run and leaves the files
\* alone is a step of run.)
C10_RunFailsFast ==
    [][(last'.cmd = "run" /\ UNCHANGED fsVars) =>
          LET d == last'.cwd
              s == last'.arg.session
              noContext == ~s.some /\ ~HasContext(d)
              name == IF s.some THEN s.val ELSE zap[d].data.obj.current_session
          IN  /\ noContext => (last'.exit = 1 /\ ~child'.spawned)
              /\ (~noContext /\ ~WellFormed(sessions[name]))
                    => (last'.exit = 1 /\ ~child'.spawned)
              /\ child'.spawned =>
                    (~noContext /\ WellFormed(sessions[name])
                       /\ last'.exit = child'.returncode)]_vars

\* a run through a dangling pointer: zap.json names a session whose file is gone
C10_Witness ==
    /\ last.cmd = "run"
    /\ ~last.arg.session.some
    /\ \E n \in Stems : ZapNames(last.cwd, n) /\ sessions[n] = Absent
    /\ last.msg = "session_not_found"
    /\ last.exit = 1
    /\ ~child.spawned
====
